---- MODULE Spec2Model ----
(***************************************************************************)
(* PhotonX coordinator: ChannelManager (apps/coordinator/src/services/     *)
(* ChannelManager.ts).                                                     *)
(*                                                                         *)
(* Every asynchronous method is cut at its awaits.  One step of a method   *)
(* is: the continuation of the previous await, the synchronous code that   *)
(* follows, and the issue of the next store command, which takes effect    *)
(* on the store when it is issued (a read captures the value it returns).  *)
(* The continuation of one invocation may run arbitrarily later than the   *)
(* continuations of the others.                                            *)
(***************************************************************************)
EXTENDS Integers, Sequences, FiniteSets, TLC

\* ------------------------------------------------------------------ bounds
NumProcs == 2        \* concurrent callers of the public methods
MaxNonce == 2        \* message nonces are drawn from 0..MaxNonce
MaxTs    == 2        \* message timestamps are drawn from 1..MaxTs
MaxOps   == 3        \* invocations started in one behaviour

\* ------------------------------------------------------- program constants
CHANNEL_TIMEOUT_MS == 3600000
MAX_SLIPPAGE_BPS   == 1000
QUOTE_EXPIRY_MS    == 30000

Procs    == 1..NumProcs
Channels == {"ch1"}
QuoteIds == {"Q1"}

TRADER == "0xaa"
LP     == "0xbb"
STRANGER == "0xcc"
USDC   == "0xa0"
WETH   == "0xb0"

\* createAddress: validates the format and lower-cases the value
createAddress(v) ==
  CASE v = "0xAA" -> "0xaa"
    [] v = "0xBB" -> "0xbb"
    [] OTHER -> v

createTokenAmount(token, amount) == [token |-> createAddress(token), amount |-> amount]

\* ------------------------------------------------------------ error kinds
E_NONCE     == "New nonce must be greater than current nonce"
E_CHANNELID == "Channel ID mismatch"
E_PARTIES   == "Participants cannot change"
E_TIMESTAMP == "New timestamp must be greater than current timestamp"
E_NOTFOUND  == "Channel not found"
E_LOCK      == "Failed to acquire lock for channel"
E_QR_TRADER == "Quote request must come from channel trader"
E_QR_QTY    == "Quote quantity must be positive"
E_QR_SLIP   == "Max slippage too high"
E_FILL_POS  == "Fill quantity and price must be positive"
E_FILL_PART == "Fill participants must match channel participants"
E_CN_TRADER == "Cancel must come from channel trader"
E_CK_NONCE  == "Checkpoint nonce must be greater than current nonce"
E_CK_ID     == "Channel ID mismatch in checkpoint"
E_FINAL     == "Final state nonce cannot be lower than current nonce"
E_CREATE    == "Failed to create channel"
E_STORE     == "store call failed"
E_DUPLICATE == "duplicate key"
OK          == "ok"

TransitionErrors == {E_NONCE, E_CHANNELID, E_PARTIES, E_TIMESTAMP}

\* ------------------------------------------------------------------ state
VARIABLES
  db,            \* 'channels' collection: channel id -> document or NoDoc
  cache,         \* channelCache: channel id -> ChannelState or NoState
  redis,         \* Redis key channel:<id> -> ChannelState or NoState
  lock,          \* Redis key lock:channel:<id> -> token of the holder, 0 = unset
  channelLocks,  \* channelLocks map: channel id -> promise or NoPromise
  timers,        \* timeoutTimers: channel id -> "none" | "armed" | "fired"
  messages,      \* 'messages' collection, in insertion order
  quotes,        \* 'quotes' collection: quote id -> status
  checkpoints,   \* 'checkpoints' collection, in insertion order
  proc,          \* the invocation each caller is running, and where it is
  ops,           \* number of invocations started
  due,           \* channel id -> the clock has passed the document's timeoutAt
  graceOver,     \* channel id -> 24 h have passed since the document's timedOutAt
  task           \* the periodic tasks and timer callbacks, and where they are

vars == <<db, cache, redis, lock, channelLocks, timers, messages, quotes,
          checkpoints, proc, ops, due, graceOver, task>>

NoDoc     == [absent |-> TRUE]
NoState   == [absent |-> TRUE]
NoPromise == [absent |-> TRUE]
NoMsg     == [absent |-> TRUE]

\* serializeChannelState: the fields of a state as stored in a document
serializeChannelState(s) ==
  [channelId |-> s.channelId, nonce |-> s.nonce, trader |-> s.trader, lp |-> s.lp,
   traderBalances |-> s.traderBalances, lpBalances |-> s.lpBalances,
   timestamp |-> s.timestamp, chainId |-> s.chainId]

\* deserializeChannelState: rebuilds a state from a document, through
\* createAddress and createTokenAmount; the other fields of the document are dropped
deserializeChannelState(d) ==
  [channelId |-> d.channelId, nonce |-> d.nonce,
   trader |-> createAddress(d.trader), lp |-> createAddress(d.lp),
   traderBalances |-> [i \in DOMAIN d.traderBalances |->
                         createTokenAmount(d.traderBalances[i].token, d.traderBalances[i].amount)],
   lpBalances |-> [i \in DOMAIN d.lpBalances |->
                         createTokenAmount(d.lpBalances[i].token, d.lpBalances[i].amount)],
   timestamp |-> d.timestamp, chainId |-> d.chainId]

\* { $set: fields } on a document: the fields named are replaced, the rest kept
SetFields(d, f) == [k \in DOMAIN d |-> IF k \in DOMAIN f THEN f[k] ELSE d[k]]

\* updateOne({channelId}, {$set: f}): no effect when no document matches
UpdateOne(c, f) == IF db[c] = NoDoc THEN db ELSE [db EXCEPT ![c] = SetFields(db[c], f)]

\* a heartbeat update that also sets the status
HeartbeatFields_Reactivating ==
  [lastHeartbeatAt |-> ops, lastActivityAt |-> ops, status |-> "ACTIVE"]

\* the $set of processHeartbeat: both fields get new Date(), here the count of
\* the calls made so far
HeartbeatFields == [lastHeartbeatAt |-> ops, lastActivityAt |-> ops]

\* ------------------------------------------------------------ invocations
IdleProc ==
  [pc |-> "idle", op |-> "none", c |-> "none", msg |-> NoMsg, cur |-> NoState,
   new |-> NoState, rd |-> NoState, ctx |-> "none", acq |-> FALSE,
   err |-> OK, inherited |-> FALSE, waitOn |-> 0, replay |-> FALSE]

Init ==
  /\ db = [c \in Channels |-> NoDoc]
  /\ cache = [c \in Channels |-> NoState]
  /\ redis = [c \in Channels |-> NoState]
  /\ lock = [c \in Channels |-> 0]
  /\ channelLocks = [c \in Channels |-> NoPromise]
  /\ timers = [c \in Channels |-> "none"]
  /\ messages = <<>>
  /\ quotes = [q \in QuoteIds |-> "QUOTED"]
  /\ checkpoints = <<>>
  /\ proc = [p \in Procs |-> IdleProc]
  /\ ops = 0
  /\ due = [c \in Channels |-> FALSE]
  /\ graceOver = [c \in Channels |-> FALSE]
  /\ task = [sync |-> [pc |-> "idle"], check |-> [pc |-> "idle"],
             cleanup |-> [pc |-> "idle"], timer |-> [c \in Channels |-> "idle"]]

\* --------------------------------------------------------------- inputs
Nonces == 0..MaxNonce
Stamps == 1..MaxTs

\* the (nonce, timestamp) pairs of the messages submitted: a client stamps a later
\* nonce no earlier than its number, and nonce 0 is the channel's initial nonce
Pairs == {nt \in Nonces \X Stamps : nt[2] >= nt[1] /\ (nt[1] = 0 => nt[2] = 1)}

\* what createChannel is called with; one combination passes validateChannelParams
ChannelParamsSet ==
  {[trader |-> TRADER, lp |-> l, tokenIn |-> USDC, tokenOut |-> WETH,
    traderDeposit |-> td, lpDeposit |-> ld, chainId |-> 1, timeout |-> t] :
      l \in {TRADER, LP}, td \in {0, 5}, ld \in {0, 3},
      t \in {(CHANNEL_TIMEOUT_MS \div 1000) - 1, CHANNEL_TIMEOUT_MS \div 1000}}

QuoteRequests(c) ==
  {[type |-> "QUOTE_REQUEST", channelId |-> c, nonce |-> nt[1], timestamp |-> nt[2],
    trader |-> TRADER, quantity |-> 1, maxSlippageBps |-> 50] : nt \in Pairs}
  \cup
  {[type |-> "QUOTE_REQUEST", channelId |-> c, nonce |-> 1, timestamp |-> 1,
    trader |-> tr, quantity |-> q, maxSlippageBps |-> s] :
      tr \in {TRADER, STRANGER}, q \in {0, 1}, s \in {50, MAX_SLIPPAGE_BPS + 1}}

Fills(c) ==
  {[type |-> "FILL", channelId |-> c, quoteId |-> "Q1", nonce |-> nt[1], timestamp |-> nt[2],
    quantity |-> 1, price |-> 2, trader |-> TRADER, lp |-> LP] : nt \in Pairs}
  \cup
  {[type |-> "FILL", channelId |-> c, quoteId |-> "Q1", nonce |-> 1, timestamp |-> 1,
    quantity |-> q, price |-> 2, trader |-> TRADER, lp |-> l] : q \in {0, 1}, l \in {LP, STRANGER}}

Cancels(c) ==
  {[type |-> "CANCEL", channelId |-> c, quoteId |-> "Q1", nonce |-> nt[1], timestamp |-> nt[2],
    trader |-> TRADER] : nt \in Pairs}
  \cup
  {[type |-> "CANCEL", channelId |-> c, quoteId |-> "Q1", nonce |-> 1, timestamp |-> 1,
    trader |-> STRANGER]}

\* -------------------------------------------------------------- validation
\* a validation without the timeout floor
validateChannelParams_NoTimeoutFloor(params) ==
  IF params.trader = params.lp THEN "Trader and LP cannot be the same address"
  ELSE IF params.traderDeposit <= 0 \/ params.lpDeposit <= 0 THEN "Deposits must be positive"
  ELSE OK

validateChannelParams(params) ==
  IF params.trader = params.lp THEN "Trader and LP cannot be the same address"
  ELSE IF params.traderDeposit <= 0 \/ params.lpDeposit <= 0 THEN "Deposits must be positive"
  ELSE IF params.timeout < CHANNEL_TIMEOUT_MS \div 1000 THEN "Timeout too short"
  ELSE OK

\* a validation without the timestamp check
validateStateTransition_NoTimestamp(currentState, newState) ==
  IF newState.nonce <= currentState.nonce THEN E_NONCE
  ELSE IF newState.channelId # currentState.channelId THEN E_CHANNELID
  ELSE IF newState.trader # currentState.trader \/ newState.lp # currentState.lp THEN E_PARTIES
  ELSE OK

validateStateTransition(currentState, newState) ==
  IF newState.nonce <= currentState.nonce THEN E_NONCE
  ELSE IF newState.channelId # currentState.channelId THEN E_CHANNELID
  ELSE IF newState.trader # currentState.trader \/ newState.lp # currentState.lp THEN E_PARTIES
  ELSE IF newState.timestamp <= currentState.timestamp THEN E_TIMESTAMP
  ELSE OK

validateQuoteRequest(request, currentState) ==
  IF request.trader # currentState.trader THEN E_QR_TRADER
  ELSE IF request.quantity <= 0 THEN E_QR_QTY
  ELSE IF request.maxSlippageBps > MAX_SLIPPAGE_BPS THEN E_QR_SLIP
  ELSE OK

validateFill(fill, currentState) ==
  IF fill.quantity <= 0 \/ fill.price <= 0 THEN E_FILL_POS
  ELSE IF fill.trader # currentState.trader \/ fill.lp # currentState.lp THEN E_FILL_PART
  ELSE OK

validateCancel(cancel, currentState) ==
  IF cancel.trader # currentState.trader THEN E_CN_TRADER ELSE OK

validateCheckpointRequest(request, currentState) ==
  IF request.state.nonce <= currentState.nonce THEN E_CK_NONCE
  ELSE IF request.state.channelId # currentState.channelId THEN E_CK_ID
  ELSE OK

\* calculatePostFillState: the current state with the fill's nonce and timestamp;
\* the balances are copied
\* a fill that debits the trader's balance and credits no one
calculatePostFillState_DebitOnly(currentState, fill) ==
  [currentState EXCEPT !.nonce = fill.nonce, !.timestamp = fill.timestamp,
                       !.traderBalances = [i \in DOMAIN currentState.traderBalances |->
                           [currentState.traderBalances[i] EXCEPT !.amount = @ - fill.quantity]]]

calculatePostFillState(currentState, fill) ==
  [currentState EXCEPT !.nonce = fill.nonce, !.timestamp = fill.timestamp]

\* the validation each process* method runs before it calls updateChannelState
ValidateMessage(m, st) ==
  CASE m.type = "QUOTE_REQUEST" -> validateQuoteRequest(m, st)
    [] m.type = "FILL" -> validateFill(m, st)
    [] m.type = "CANCEL" -> validateCancel(m, st)

\* the new state each process* method hands to updateChannelState
NewStateOf(m, st) ==
  IF m.type = "FILL" THEN calculatePostFillState(st, m)
  ELSE [st EXCEPT !.nonce = m.nonce, !.timestamp = m.timestamp]

\* ------------------------------------------------- parts shared by the steps
\* an invocation returns or throws to the caller of the public method
Finish(p, inv, out) ==
  proc' = [proc EXCEPT ![p] = [inv EXCEPT !.pc = "done", !.err = out]]

\* redis.set(lockKey, lockValue, 'EX', lockTtl, 'NX')
SetNX(c, p) == IF lock[c] = 0 THEN [lock EXCEPT ![c] = p] ELSE lock

\* a release that deletes the key whatever value it holds
ReleaseScript_Unchecked(c, p) == [lock EXCEPT ![c] = 0]

\* the release script: delete the key when it still holds the caller's value
ReleaseScript(c, p) == IF lock[c] = p THEN [lock EXCEPT ![c] = 0] ELSE lock

\* a SET NX on one lock key shared by all channels
Acquire_OneKey(p, inv, next) ==
  LET free == \A d \in DOMAIN lock : lock[d] = 0 IN
  /\ lock' = IF free THEN [lock EXCEPT ![inv.c] = p] ELSE lock
  /\ proc' = [proc EXCEPT ![p] = [inv EXCEPT !.pc = next, !.acq = free]]

\* withChannelLock issues a SET NX and awaits the reply
Acquire(p, inv, next) ==
  /\ lock' = SetNX(inv.c, p)
  /\ proc' = [proc EXCEPT ![p] = [inv EXCEPT !.pc = next, !.acq = (lock[inv.c] = 0)]]

\* fn's promise settles with `out`: the invocation's own await of it resumes first
\* and its finally issues the release script; the invocations that await the same
\* promise in withChannelLock are resumed after it
Settle(p, inv, out, cl) ==
  /\ lock' = ReleaseScript(inv.c, p)
  /\ channelLocks' = IF cl[inv.c] # NoPromise /\ cl[inv.c].owner = p
                     THEN [cl EXCEPT ![inv.c] = [owner |-> p, outcome |-> out]]
                     ELSE cl
  /\ proc' = [q \in Procs |->
               IF q = p THEN [inv EXCEPT !.pc = "release", !.err = out]
               ELSE IF proc[q].pc = "lock_wait" /\ proc[q].waitOn = p
                    THEN [proc[q] EXCEPT !.pc = "lock_woke", !.err = out]
                    ELSE proc[q]]

\* withChannelLock throws before fn is called: its finally issues the release script
Abort(p, inv, e, inh) ==
  /\ lock' = ReleaseScript(inv.c, p)
  /\ proc' = [proc EXCEPT ![p] = [inv EXCEPT !.pc = "release", !.err = e, !.inherited = inh]]

\* the document fields updateChannelState sets
UpdateDoc(inv) ==
  [channelId |-> inv.new.channelId, nonce |-> inv.new.nonce, trader |-> inv.new.trader,
   lp |-> inv.new.lp, traderBalances |-> inv.new.traderBalances,
   lpBalances |-> inv.new.lpBalances, timestamp |-> inv.new.timestamp,
   chainId |-> inv.new.chainId, lastMessageType |-> inv.op, lastMessageData |-> inv.msg]

\* the code that follows `await this.getChannelState(channelId)` in each caller,
\* up to the next await; st is what getChannelState returned (NoState for null),
\* cl the channelLocks map at this point
Resume(p, inv, st, cl) ==
  /\ UNCHANGED <<timers, messages, quotes, checkpoints, due, graceOver, task>>
  /\ CASE inv.ctx = "msg" ->
            \* processQuoteRequest, processFill, processCancel
            LET e == IF st = NoState THEN E_NOTFOUND ELSE ValidateMessage(inv.msg, st) IN
            /\ channelLocks' = cl
            /\ IF e # OK
               THEN Finish(p, inv, e) /\ UNCHANGED <<db, lock>>
               ELSE /\ Acquire(p, [inv EXCEPT !.new = NewStateOf(inv.msg, st)], "lock_first")
                    /\ UNCHANGED db
       [] inv.ctx = "fn" ->
            \* the function updateChannelState runs under the lock
            LET e == IF st = NoState THEN E_NOTFOUND ELSE validateStateTransition(st, inv.new) IN
            IF e # OK
            THEN Settle(p, [inv EXCEPT !.cur = st], e, cl) /\ UNCHANGED db
            ELSE /\ db' = UpdateOne(inv.c, UpdateDoc(inv))
                 /\ proc' = [proc EXCEPT ![p] = [inv EXCEPT !.pc = "update_db", !.cur = st]]
                 /\ channelLocks' = cl
                 /\ UNCHANGED lock
       [] inv.ctx = "heartbeat" ->
            /\ channelLocks' = cl
            /\ IF st = NoState
               THEN Finish(p, inv, E_NOTFOUND) /\ UNCHANGED <<db, lock>>
               ELSE /\ db' = UpdateOne(inv.c, HeartbeatFields)
                    /\ proc' = [proc EXCEPT ![p] = [inv EXCEPT !.pc = "heartbeat_db"]]
                    /\ UNCHANGED lock
       [] inv.ctx = "checkpoint" ->
            LET e == IF st = NoState THEN E_NOTFOUND ELSE validateCheckpointRequest(inv.msg, st) IN
            /\ channelLocks' = cl
            /\ IF e # OK
               THEN Finish(p, inv, e) /\ UNCHANGED <<db, lock>>
               ELSE /\ db' = UpdateOne(inv.c, [status |-> "CHECKPOINTING",
                                               checkpointNonce |-> inv.msg.state.nonce])
                    /\ proc' = [proc EXCEPT ![p] = [inv EXCEPT !.pc = "checkpoint_db"]]
                    /\ UNCHANGED lock
       [] inv.ctx = "close" ->
            LET e == IF st = NoState THEN E_NOTFOUND
                     ELSE IF inv.new.nonce < st.nonce THEN E_FINAL ELSE OK IN
            /\ channelLocks' = cl
            /\ IF e # OK
               THEN Finish(p, inv, e) /\ UNCHANGED <<db, lock>>
               ELSE /\ db' = UpdateOne(inv.c, [status |-> "SETTLING",
                                               finalState |-> serializeChannelState(inv.new),
                                               finalNonce |-> inv.new.nonce])
                    /\ proc' = [proc EXCEPT ![p] = [inv EXCEPT !.pc = "close_db"]]
                    /\ UNCHANGED lock

\* getChannelState up to its first await: a cache hit returns at once, a miss
\* issues redis.get
GetChannelState(p, inv, cl) ==
  IF cache[inv.c] # NoState
  THEN Resume(p, inv, cache[inv.c], cl) /\ UNCHANGED <<cache, redis>>
  ELSE /\ proc' = [proc EXCEPT ![p] = [inv EXCEPT !.pc = "gcs_redis", !.rd = redis[inv.c]]]
       /\ channelLocks' = cl
       /\ UNCHANGED <<db, cache, redis, lock, timers, messages, quotes, checkpoints,
                      due, graceOver, task>>

\* the message is already in the message log
Archived(m) ==
  \E i \in DOMAIN messages : messages[i].channelId = m.channelId /\ messages[i].messageData = m

\* ------------------------------------------------ the public methods: calls
\* a caller has a channel id only when createChannel has returned it
Returned(c) ==
  \A q \in Procs : ~(proc[q].op = "CREATE" /\ proc[q].c = c /\ proc[q].pc \in {"create_db", "create_redis"})

Call(p, inv) ==
  /\ ops < MaxOps
  /\ Returned(inv.c)
  /\ ops' = ops + 1
  /\ GetChannelState(p, inv, channelLocks)

ProcessQuoteRequest(p, c) ==
  \E m \in QuoteRequests(c) :
    /\ proc[p].pc = "idle"
    /\ Call(p, [IdleProc EXCEPT !.op = m.type, !.c = c, !.msg = m, !.ctx = "msg",
                                !.replay = Archived(m)])

ProcessFill(p, c) ==
  \E m \in Fills(c) :
    /\ proc[p].pc = "idle"
    /\ Call(p, [IdleProc EXCEPT !.op = m.type, !.c = c, !.msg = m, !.ctx = "msg",
                                !.replay = Archived(m)])

ProcessCancel(p, c) ==
  \E m \in Cancels(c) :
    /\ proc[p].pc = "idle"
    /\ Call(p, [IdleProc EXCEPT !.op = m.type, !.c = c, !.msg = m, !.ctx = "msg",
                                !.replay = Archived(m)])

ProcessHeartbeat(p, c) ==
  /\ proc[p].pc = "idle"
  /\ Call(p, [IdleProc EXCEPT !.op = "HEARTBEAT", !.c = c, !.ctx = "heartbeat",
                              !.msg = [type |-> "HEARTBEAT", channelId |-> c, sender |-> TRADER]])

\* the states a caller hands to createCheckpoint and closeChannel
SignedStates(c) ==
  {[channelId |-> id, nonce |-> n, trader |-> TRADER, lp |-> LP,
    traderBalances |-> <<createTokenAmount(USDC, 5)>>,
    lpBalances |-> <<createTokenAmount(WETH, 3)>>,
    timestamp |-> MaxTs, chainId |-> 1] : id \in {c, "chX"}, n \in Nonces}

CreateCheckpoint(p, c) ==
  \E s \in SignedStates(c) :
    /\ proc[p].pc = "idle"
    /\ Call(p, [IdleProc EXCEPT !.op = "CHECKPOINT", !.c = c, !.ctx = "checkpoint",
                                !.msg = [type |-> "CHECKPOINT", channelId |-> c, state |-> s]])

CloseChannel(p, c) ==
  \E s \in SignedStates(c) :
    /\ proc[p].pc = "idle"
    /\ Call(p, [IdleProc EXCEPT !.op = "CLOSE", !.c = c, !.ctx = "close", !.new = s])

\* the states a caller hands to updateChannelState itself: well-formed ones, and
\* ones for another channel or with another trader or LP
DirectStates(c) ==
  {[channelId |-> c, nonce |-> nt[1], trader |-> TRADER, lp |-> LP,
    traderBalances |-> <<createTokenAmount(USDC, 5)>>,
    lpBalances |-> <<createTokenAmount(WETH, 3)>>,
    timestamp |-> nt[2], chainId |-> 1] : nt \in Pairs}
  \cup
  {[channelId |-> id, nonce |-> 1, trader |-> tr, lp |-> l,
    traderBalances |-> <<createTokenAmount(USDC, 5)>>,
    lpBalances |-> <<createTokenAmount(WETH, 3)>>,
    timestamp |-> 1, chainId |-> 1] :
      id \in {c, "chX"}, tr \in {TRADER, STRANGER}, l \in {LP, STRANGER}}

\* updateChannelState called by itself, up to the await of the first SET NX
UpdateChannelState(p, c) ==
  \E newState \in DirectStates(c) :
    /\ proc[p].pc = "idle"
    /\ ops < MaxOps
    /\ Returned(c)
    /\ ops' = ops + 1
    /\ Acquire(p, [IdleProc EXCEPT !.op = "REPLACE", !.c = c, !.ctx = "direct",
                                   !.new = newState,
                                   !.msg = [type |-> "REPLACE", channelId |-> c,
                                            nonce |-> newState.nonce,
                                            timestamp |-> newState.timestamp]],
               "lock_first")
    /\ UNCHANGED <<db, cache, redis, channelLocks, timers, messages, quotes,
                   checkpoints, due, graceOver, task>>

\* eip712 validateTimestamp, with the reading of Date.now() as a parameter;
\* ChannelManager does not call it
validateTimestamp(timestamp, now, maxAge) ==
  LET age == now - timestamp IN age >= 0 /\ age <= maxAge

\* eip712 validateNonceSequence; ChannelManager does not call it
validateNonceSequence(currentNonce, newNonce) == newNonce = currentNonce + 1

\* eip712 validateSignature: a placeholder that looks at the lengths only; a
\* signature is modelled by its length and by the address that produced it, the
\* addresses of the model stand for well-formed 42-character ones
validateSignature(signature, expectedSigner, messageHash) ==
  signature.length = 132 /\ expectedSigner \in {TRADER, LP, STRANGER}

\* quote requests naming the channel's trader as author, together with the
\* signature they were sent with; the QuoteRequest type has no signature field
\* and processQuoteRequest is handed the request alone
SignedQuoteRequests(c) ==
  {[type |-> "QUOTE_REQUEST", channelId |-> c, nonce |-> nt[1], timestamp |-> nt[2],
    trader |-> TRADER, quantity |-> 1, maxSlippageBps |-> 50,
    signature |-> [length |-> 132, signedBy |-> signer]] :
      nt \in Pairs, signer \in {TRADER, STRANGER}}

\* processQuoteRequest for a request that arrived signed
ProcessSignedQuoteRequest(p, c) ==
  \E m \in SignedQuoteRequests(c) :
    /\ proc[p].pc = "idle"
    /\ Call(p, [IdleProc EXCEPT !.op = m.type, !.c = c, !.msg = m, !.ctx = "msg",
                                !.replay = Archived(m)])

\* createChannel up to the await of insertOne; the generated id is a fresh one
CreateChannel(p, c) ==
  \E params \in ChannelParamsSet :
    LET initialState ==
          [channelId |-> c, nonce |-> 0, trader |-> params.trader, lp |-> params.lp,
           traderBalances |-> <<createTokenAmount(params.tokenIn, params.traderDeposit)>>,
           lpBalances |-> <<createTokenAmount(params.tokenOut, params.lpDeposit)>>,
           timestamp |-> 0, chainId |-> params.chainId]
        channelDoc ==
          [channelId |-> c, nonce |-> 0, trader |-> params.trader, lp |-> params.lp,
           traderBalances |-> initialState.traderBalances,
           lpBalances |-> initialState.lpBalances,
           timestamp |-> 0, chainId |-> params.chainId,
           status |-> "ACTIVE",
           participants |-> <<params.trader, params.lp>>,
           tokens |-> <<params.tokenIn, params.tokenOut>>,
           metadata |-> [traderDeposit |-> params.traderDeposit,
                         lpDeposit |-> params.lpDeposit, timeout |-> params.timeout],
           \* fields later updates set; unset in the inserted document
           lastMessageType |-> "none", lastMessageData |-> NoMsg,
           lastHeartbeatAt |-> 0, lastActivityAt |-> 0,
           checkpointNonce |-> -1, finalState |-> NoState, finalNonce |-> -1,
           timedOut |-> FALSE]
        inv == [IdleProc EXCEPT !.op = "CREATE", !.c = c, !.msg = params,
                                !.new = initialState]
        e == validateChannelParams(params)
    IN
    /\ proc[p].pc = "idle"
    /\ ops < MaxOps
    /\ db[c] = NoDoc
    /\ ops' = ops + 1
    /\ IF e # OK
       THEN Finish(p, inv, E_CREATE) /\ UNCHANGED db
       ELSE /\ db' = [db EXCEPT ![c] = channelDoc]
            /\ proc' = [proc EXCEPT ![p] = [inv EXCEPT !.pc = "create_db"]]
    /\ UNCHANGED <<cache, redis, lock, channelLocks, timers, messages, quotes, checkpoints,
                   due, graceOver, task>>

\* createChannel after insertOne: cache, timer, redis.setex
CreateCached(p) ==
  LET inv == proc[p] IN
  /\ inv.pc = "create_db"
  /\ cache' = [cache EXCEPT ![inv.c] = inv.new]
  /\ timers' = [timers EXCEPT ![inv.c] = IF due[inv.c] THEN @ ELSE "armed"]
  /\ redis' = [redis EXCEPT ![inv.c] = serializeChannelState(inv.new)]
  /\ proc' = [proc EXCEPT ![p] = [inv EXCEPT !.pc = "create_redis"]]
  /\ UNCHANGED <<db, lock, channelLocks, messages, quotes, checkpoints, ops,
                 due, graceOver, task>>

CreateDone(p) ==
  /\ proc[p].pc = "create_redis"
  /\ Finish(p, proc[p], OK)
  /\ UNCHANGED <<db, cache, redis, lock, channelLocks, timers, messages, quotes,
                 checkpoints, ops, due, graceOver, task>>

\* createChannel after insertOne, with a redis.setex that fails: the cache entry
\* and the timer are set, the catch rethrows
CreateSetexFails(p) ==
  LET inv == proc[p] IN
  /\ inv.pc = "create_db"
  /\ cache' = [cache EXCEPT ![inv.c] = inv.new]
  /\ timers' = [timers EXCEPT ![inv.c] = IF due[inv.c] THEN @ ELSE "armed"]
  /\ Finish(p, inv, E_CREATE)
  /\ UNCHANGED <<db, redis, lock, channelLocks, messages, quotes, checkpoints, ops,
                 due, graceOver, task>>

\* ------------------------------------------- getChannelState: continuations
\* after redis.get: a hit fills the cache and returns, a miss issues findOne
GetFromRedis(p) ==
  LET inv == proc[p] IN
  /\ inv.pc = "gcs_redis"
  /\ IF inv.rd # NoState
     THEN LET state == deserializeChannelState(inv.rd) IN
          /\ cache' = [cache EXCEPT ![inv.c] = state]
          /\ proc' = [proc EXCEPT ![p] = [inv EXCEPT !.pc = "gcs_return", !.rd = state]]
     ELSE /\ proc' = [proc EXCEPT ![p] = [inv EXCEPT !.pc = "gcs_db", !.rd = db[inv.c]]]
          /\ UNCHANGED cache
  /\ UNCHANGED <<db, redis, lock, channelLocks, timers, messages, quotes, checkpoints,
                 ops, due, graceOver, task>>

\* after findOne: no document returns null; a document fills the cache and
\* issues redis.setex
GetFromDb(p) ==
  LET inv == proc[p] IN
  /\ inv.pc = "gcs_db"
  /\ IF inv.rd = NoDoc
     THEN /\ proc' = [proc EXCEPT ![p] = [inv EXCEPT !.pc = "gcs_return", !.rd = NoState]]
          /\ UNCHANGED <<cache, redis>>
     ELSE LET state == deserializeChannelState(inv.rd) IN
          /\ cache' = [cache EXCEPT ![inv.c] = state]
          /\ redis' = [redis EXCEPT ![inv.c] = serializeChannelState(state)]
          /\ proc' = [proc EXCEPT ![p] = [inv EXCEPT !.pc = "gcs_return", !.rd = state]]
  /\ UNCHANGED <<db, lock, channelLocks, timers, messages, quotes, checkpoints,
                 ops, due, graceOver, task>>

\* getChannelState returns to the method that awaits it
GetReturn(p) ==
  LET inv == proc[p] IN
  /\ inv.pc = "gcs_return"
  /\ Resume(p, [inv EXCEPT !.rd = NoState], inv.rd, channelLocks)
  /\ UNCHANGED <<cache, redis, ops>>

\* ---------------------------------------------- withChannelLock: continuations
\* fn() is called: it runs to the first await inside getChannelState, the promise
\* is put in channelLocks, and fn goes on when the state is there
EnterFn(p, inv) ==
  GetChannelState(p, [inv EXCEPT !.ctx = "fn"],
                  [channelLocks EXCEPT ![inv.c] = [owner |-> p, outcome |-> "pending"]])

\* after the first SET NX
LockFirst(p) ==
  LET inv == proc[p]
      existingLock == channelLocks[inv.c] IN
  /\ inv.pc = "lock_first"
  /\ UNCHANGED ops
  /\ IF inv.acq
     THEN EnterFn(p, inv)
     ELSE /\ UNCHANGED <<db, cache, redis, channelLocks, timers, messages, quotes,
                         checkpoints, due, graceOver, task>>
          /\ IF existingLock = NoPromise \/ existingLock.outcome = OK
             THEN Acquire(p, inv, "lock_retry")
             ELSE IF existingLock.outcome = "pending"
             THEN /\ proc' = [proc EXCEPT ![p] =
                               [inv EXCEPT !.pc = "lock_wait", !.waitOn = existingLock.owner]]
                  /\ UNCHANGED lock
             ELSE Abort(p, inv, existingLock.outcome, TRUE)

\* the awaited promise has settled: a rejection is thrown here, otherwise the
\* SET NX is retried
LockWoke(p) ==
  LET inv == proc[p] IN
  /\ inv.pc = "lock_woke"
  /\ IF inv.err = OK
     THEN Acquire(p, [inv EXCEPT !.waitOn = 0], "lock_retry")
     ELSE Abort(p, [inv EXCEPT !.waitOn = 0], inv.err, TRUE)
  /\ UNCHANGED <<db, cache, redis, channelLocks, ops, timers, messages, quotes,
                 checkpoints, due, graceOver, task>>

\* after the second SET NX
LockRetry(p) ==
  LET inv == proc[p] IN
  /\ inv.pc = "lock_retry"
  /\ UNCHANGED ops
  /\ IF inv.acq
     THEN EnterFn(p, inv)
     ELSE /\ Abort(p, inv, E_LOCK, FALSE)
          /\ UNCHANGED <<db, cache, redis, channelLocks, timers, messages, quotes,
                         checkpoints, due, graceOver, task>>

\* ------------------------------------------- updateChannelState: continuations
\* after updateOne: cache.set and redis.setex
UpdateCached(p) ==
  LET inv == proc[p] IN
  /\ inv.pc = "update_db"
  /\ cache' = [cache EXCEPT ![inv.c] = inv.new]
  /\ redis' = [redis EXCEPT ![inv.c] = serializeChannelState(inv.new)]
  /\ proc' = [proc EXCEPT ![p] = [inv EXCEPT !.pc = "update_redis"]]
  /\ UNCHANGED <<db, lock, channelLocks, timers, messages, quotes, checkpoints, ops,
                 due, graceOver, task>>

\* after redis.setex: storeMessage
storeMessage(channelId, messageType, messageData, nonce) ==
  Append(messages, [channelId |-> channelId, messageType |-> messageType,
                    messageData |-> messageData, nonce |-> nonce, processed |-> TRUE])

UpdateArchived(p) ==
  LET inv == proc[p] IN
  /\ inv.pc = "update_redis"
  /\ messages' = storeMessage(inv.c, inv.op, inv.msg, inv.new.nonce)
  /\ proc' = [proc EXCEPT ![p] = [inv EXCEPT !.pc = "update_msg"]]
  /\ UNCHANGED <<db, cache, redis, lock, channelLocks, timers, quotes, checkpoints,
                 ops, due, graceOver, task>>

\* after insertOne: fn returns and withChannelLock's finally releases the lock
UpdateReturn(p) ==
  LET inv == proc[p] IN
  /\ inv.pc = "update_msg"
  /\ Settle(p, inv, OK, channelLocks)
  /\ UNCHANGED <<db, cache, redis, timers, messages, quotes, checkpoints, ops,
                 due, graceOver, task>>

\* a messages collection that accepts every insert
DuplicateKey_Never(log, channelId, nonce) == FALSE

\* the messages collection as DatabaseService is to set it up: indexed by
\* (channelId, nonce), an insert of a second entry under one key is refused
DuplicateKey(log, channelId, nonce) ==
  \E i \in DOMAIN log : log[i].channelId = channelId /\ log[i].nonce = nonce

\* after redis.setex: storeMessage on the indexed collection; a refused
\* insertOne throws, the catch of updateChannelState rethrows
UpdateArchivedUnique(p) ==
  LET inv == proc[p] IN
  /\ inv.pc = "update_redis"
  /\ IF DuplicateKey(messages, inv.c, inv.new.nonce)
     THEN /\ Settle(p, inv, E_DUPLICATE, channelLocks)
          /\ UNCHANGED messages
     ELSE /\ messages' = storeMessage(inv.c, inv.op, inv.msg, inv.new.nonce)
          /\ proc' = [proc EXCEPT ![p] = [inv EXCEPT !.pc = "update_msg"]]
          /\ UNCHANGED <<lock, channelLocks>>
  /\ UNCHANGED <<db, cache, redis, timers, quotes, checkpoints, ops, due, graceOver, task>>

\* redis.setex fails after updateOne and cache.set: the catch of
\* updateChannelState rethrows, no message is stored
SetexFails(p) ==
  LET inv == proc[p] IN
  /\ inv.pc = "update_db"
  /\ cache' = [cache EXCEPT ![inv.c] = inv.new]
  /\ Settle(p, inv, E_STORE, channelLocks)
  /\ UNCHANGED <<db, redis, timers, messages, quotes, checkpoints, ops,
                 due, graceOver, task>>

\* the insertOne of storeMessage fails after updateOne, cache.set and redis.setex
InsertFails(p) ==
  LET inv == proc[p] IN
  /\ inv.pc = "update_redis"
  /\ Settle(p, inv, E_STORE, channelLocks)
  /\ UNCHANGED <<db, cache, redis, timers, messages, quotes, checkpoints, ops,
                 due, graceOver, task>>

\* after the release script: channelLocks.delete, and the result or the error goes
\* to the caller; processCancel then marks the quote
Released(p) ==
  LET inv == proc[p] IN
  /\ inv.pc = "release"
  /\ channelLocks' = [channelLocks EXCEPT ![inv.c] = NoPromise]
  /\ IF inv.err = OK /\ inv.op = "CANCEL"
     THEN /\ quotes' = [quotes EXCEPT ![inv.msg.quoteId] = "CANCELLED"]
          /\ proc' = [proc EXCEPT ![p] = [inv EXCEPT !.pc = "cancel_quote"]]
     ELSE Finish(p, inv, inv.err) /\ UNCHANGED quotes
  /\ UNCHANGED <<db, cache, redis, lock, timers, messages, checkpoints, ops,
                 due, graceOver, task>>

CancelDone(p) ==
  /\ proc[p].pc = "cancel_quote"
  /\ Finish(p, proc[p], OK)
  /\ UNCHANGED <<db, cache, redis, lock, channelLocks, timers, messages, quotes,
                 checkpoints, ops, due, graceOver, task>>

\* the caller has the result or the error of its call
Return(p) ==
  /\ proc[p].pc = "done"
  /\ proc' = [proc EXCEPT ![p] = IdleProc]
  /\ UNCHANGED <<db, cache, redis, lock, channelLocks, timers, messages, quotes,
                 checkpoints, ops, due, graceOver, task>>

\* ------------------------- processHeartbeat, createCheckpoint, closeChannel
\* after updateOne: redis.expire, which leaves the value of the key alone
HeartbeatExpire(p) ==
  /\ proc[p].pc = "heartbeat_db"
  /\ proc' = [proc EXCEPT ![p].pc = "heartbeat_redis"]
  /\ UNCHANGED <<db, cache, redis, lock, channelLocks, timers, messages, quotes,
                 checkpoints, ops, due, graceOver, task>>

HeartbeatDone(p) ==
  /\ proc[p].pc = "heartbeat_redis"
  /\ Finish(p, proc[p], OK)
  /\ UNCHANGED <<db, cache, redis, lock, channelLocks, timers, messages, quotes,
                 checkpoints, ops, due, graceOver, task>>

\* after updateOne: the checkpoint is inserted
CheckpointStored(p) ==
  LET inv == proc[p] IN
  /\ inv.pc = "checkpoint_db"
  /\ checkpoints' = Append(checkpoints,
                           [channelId |-> inv.c, nonce |-> inv.msg.state.nonce,
                            state |-> serializeChannelState(inv.msg.state)])
  /\ proc' = [proc EXCEPT ![p].pc = "checkpoint_insert"]
  /\ UNCHANGED <<db, cache, redis, lock, channelLocks, timers, messages, quotes,
                 ops, due, graceOver, task>>

CheckpointDone(p) ==
  /\ proc[p].pc = "checkpoint_insert"
  /\ Finish(p, proc[p], OK)
  /\ UNCHANGED <<db, cache, redis, lock, channelLocks, timers, messages, quotes,
                 checkpoints, ops, due, graceOver, task>>

\* after updateOne: cache.delete, clearChannelTimeout, redis.del
CloseEvicted(p) ==
  LET inv == proc[p] IN
  /\ inv.pc = "close_db"
  /\ cache' = [cache EXCEPT ![inv.c] = NoState]
  /\ timers' = [timers EXCEPT ![inv.c] = "none"]
  /\ redis' = [redis EXCEPT ![inv.c] = NoState]
  /\ proc' = [proc EXCEPT ![p].pc = "close_redis"]
  /\ UNCHANGED <<db, lock, channelLocks, messages, quotes, checkpoints, ops,
                 due, graceOver, task>>

CloseDone(p) ==
  /\ proc[p].pc = "close_redis"
  /\ Finish(p, proc[p], OK)
  /\ UNCHANGED <<db, cache, redis, lock, channelLocks, timers, messages, quotes,
                 checkpoints, ops, due, graceOver, task>>

\* ------------------------------------------------------- clock and expiry
\* the clock passes the document's timeoutAt: the timeout is an hour or more
\* (validateChannelParams), so createChannel has returned by then
TimeoutReached(c) ==
  /\ db[c] # NoDoc
  /\ Returned(c)
  /\ ~due[c]
  /\ due' = [due EXCEPT ![c] = TRUE]
  /\ UNCHANGED <<db, cache, redis, lock, channelLocks, timers, messages, quotes,
                 checkpoints, proc, ops, graceOver, task>>

\* no call on the channel and no timeout handling of it is under way
Quiescent(c) ==
  /\ \A p \in Procs : proc[p].pc \in {"idle", "done"} \/ proc[p].c # c
  /\ task.timer[c] = "idle"
  /\ task.check.pc = "idle"

\* 24 hours pass after the document's timedOutAt: whatever was under way at
\* the timeout has finished by then
GraceReached(c) ==
  /\ db[c] # NoDoc
  /\ db[c].timedOut
  /\ ~graceOver[c]
  /\ Quiescent(c)
  /\ graceOver' = [graceOver EXCEPT ![c] = TRUE]
  /\ UNCHANGED <<db, cache, redis, lock, channelLocks, timers, messages, quotes,
                 checkpoints, proc, ops, due, task>>

\* the lock key reaches its 30 s TTL
LockExpires(c) ==
  /\ lock[c] # 0
  /\ lock' = [lock EXCEPT ![c] = 0]
  /\ UNCHANGED <<db, cache, redis, channelLocks, timers, messages, quotes,
                 checkpoints, proc, ops, due, graceOver, task>>

\* the key channel:<id> reaches its 3600 s TTL
RedisExpires(c) ==
  /\ redis[c] # NoState
  /\ redis' = [redis EXCEPT ![c] = NoState]
  /\ UNCHANGED <<db, cache, lock, channelLocks, timers, messages, quotes,
                 checkpoints, proc, ops, due, graceOver, task>>

\* ------------------------------------------------------ timeout handling
\* handleChannelTimeout up to its await: updateOne by channel id
TimeoutUpdate(c) ==
  [db EXCEPT ![c] = IF @ = NoDoc THEN @
                    ELSE SetFields(@, [status |-> "TIMEOUT", timedOut |-> TRUE])]

\* the timer set by setupChannelTimeout fires
TimerFires(c) ==
  /\ timers[c] = "armed"
  /\ due[c]
  /\ task.timer[c] = "idle"
  /\ db' = TimeoutUpdate(c)
  /\ graceOver' = [graceOver EXCEPT ![c] = FALSE]
  /\ timers' = [timers EXCEPT ![c] = "fired"]
  /\ task' = [task EXCEPT !.timer[c] = "update"]
  /\ UNCHANGED <<cache, redis, lock, channelLocks, messages, quotes, checkpoints,
                 proc, ops, due>>

\* handleChannelTimeout after updateOne: cache.delete, clearChannelTimeout
TimerHandled(c) ==
  /\ task.timer[c] = "update"
  /\ cache' = [cache EXCEPT ![c] = NoState]
  /\ timers' = [timers EXCEPT ![c] = "none"]
  /\ task' = [task EXCEPT !.timer[c] = "idle"]
  /\ UNCHANGED <<db, redis, lock, channelLocks, messages, quotes, checkpoints,
                 proc, ops, due, graceOver>>

\* checkChannelTimeouts: find the ACTIVE channels whose timeoutAt has passed
CheckFind ==
  LET timedOutChannels == {c \in Channels : db[c] # NoDoc /\ db[c].status = "ACTIVE" /\ due[c]} IN
  /\ task.check.pc = "idle"
  /\ timedOutChannels # {}
  /\ task' = [task EXCEPT !.check = [pc |-> "found", list |-> timedOutChannels]]
  /\ UNCHANGED <<db, cache, redis, lock, channelLocks, timers, messages, quotes,
                 checkpoints, proc, ops, due, graceOver>>

\* the loop calls handleChannelTimeout for the next channel found
CheckHandle ==
  /\ task.check.pc = "found"
  /\ \E c \in task.check.list :
       /\ db' = TimeoutUpdate(c)
       /\ graceOver' = [graceOver EXCEPT ![c] = FALSE]
       /\ task' = [task EXCEPT !.check = [pc |-> "update", list |-> @.list \ {c}, c |-> c]]
  /\ UNCHANGED <<cache, redis, lock, channelLocks, timers, messages, quotes,
                 checkpoints, proc, ops, due>>

CheckHandled ==
  /\ task.check.pc = "update"
  /\ cache' = [cache EXCEPT ![task.check.c] = NoState]
  /\ timers' = [timers EXCEPT ![task.check.c] = "none"]
  /\ task' = [task EXCEPT !.check = IF @.list = {} THEN [pc |-> "idle"]
                                    ELSE [pc |-> "found", list |-> @.list]]
  /\ UNCHANGED <<db, redis, lock, channelLocks, messages, quotes, checkpoints,
                 proc, ops, due, graceOver>>

\* cleanupExpiredChannels: find the TIMEOUT channels timed out 24 hours ago
CleanupFind ==
  LET expiredChannels == {c \in Channels : db[c] # NoDoc /\ db[c].status = "TIMEOUT"
                                           /\ db[c].timedOut /\ graceOver[c]} IN
  /\ task.cleanup.pc = "idle"
  /\ expiredChannels # {}
  /\ task' = [task EXCEPT !.cleanup = [pc |-> "found", list |-> expiredChannels]]
  /\ UNCHANGED <<db, cache, redis, lock, channelLocks, timers, messages, quotes,
                 checkpoints, proc, ops, due, graceOver>>

\* the loop issues updateOne for the next channel found and awaits it
CleanupExpire ==
  /\ task.cleanup.pc = "found"
  /\ \E c \in task.cleanup.list :
       /\ db' = [db EXCEPT ![c] = IF @ = NoDoc THEN @ ELSE SetFields(@, [status |-> "EXPIRED"])]
       /\ task' = [task EXCEPT !.cleanup = IF @.list = {c} THEN [pc |-> "idle"]
                                           ELSE [pc |-> "found", list |-> @.list \ {c}]]
  /\ UNCHANGED <<cache, redis, lock, channelLocks, timers, messages, quotes,
                 checkpoints, proc, ops, due, graceOver>>

\* syncCacheWithDatabase up to its await: the cache keys, and the find
SyncFind ==
  LET cacheKeys == {c \in Channels : cache[c] # NoState}
      dbChannels == {c \in cacheKeys : db[c] # NoDoc /\ db[c].status \in {"ACTIVE", "CHECKPOINTING"}} IN
  /\ task.sync.pc = "idle"
  /\ cacheKeys # {}
  /\ task' = [task EXCEPT !.sync = [pc |-> "found", cacheKeys |-> cacheKeys,
                                    dbChannelMap |-> [c \in dbChannels |-> db[c]]]]
  /\ UNCHANGED <<db, cache, redis, lock, channelLocks, timers, messages, quotes,
                 checkpoints, proc, ops, due, graceOver>>

\* syncCacheWithDatabase after the find: the cache takes what the find returned
SyncApply ==
  LET t == task.sync IN
  /\ t.pc = "found"
  /\ cache' = [c \in Channels |->
                 IF c \notin t.cacheKeys THEN cache[c]
                 ELSE IF c \in DOMAIN t.dbChannelMap
                      THEN deserializeChannelState(t.dbChannelMap[c])
                      ELSE NoState]
  /\ timers' = [c \in Channels |->
                  IF c \in t.cacheKeys /\ c \notin DOMAIN t.dbChannelMap THEN "none"
                  ELSE timers[c]]
  /\ task' = [task EXCEPT !.sync = [pc |-> "idle"]]
  /\ UNCHANGED <<db, redis, lock, channelLocks, messages, quotes, checkpoints,
                 proc, ops, due, graceOver>>

\* --------------------------------------------------------- specifications
\* caller p opens a channel and submits trading messages
TradingBy(p) ==
  \E c \in Channels :
    \/ CreateChannel(p, c)
    \/ ProcessQuoteRequest(p, c)
    \/ ProcessFill(p, c)
    \/ ProcessCancel(p, c)

Trading == \E p \in Procs : TradingBy(p)

\* the continuations of createChannel, process*, updateChannelState
TradingSteps ==
  \E p \in Procs :
    \/ CreateCached(p) \/ CreateDone(p)
    \/ LockFirst(p)
    \/ UpdateCached(p) \/ UpdateArchived(p) \/ UpdateReturn(p)
    \/ Released(p) \/ CancelDone(p)
    \/ Return(p)

\* the continuations of withChannelLock when the first SET NX found the key held
Contention ==
  \E p \in Procs : LockWoke(p) \/ LockRetry(p)

\* the continuations of getChannelState after a cache miss
CacheMissSteps ==
  \E p \in Procs : GetFromRedis(p) \/ GetFromDb(p) \/ GetReturn(p)

\* trading on a channel whose lock key can reach its TTL
Next ==
  \/ Trading
  \/ TradingSteps
  \/ Contention
  \/ CacheMissSteps
  \/ \E c \in Channels : LockExpires(c)

Spec == Init /\ [][Next]_vars

\* trading while the periodic syncCacheWithDatabase runs; no lock key expires
NextSync ==
  \/ Trading
  \/ TradingSteps
  \/ Contention
  \/ CacheMissSteps
  \/ SyncFind
  \/ SyncApply

SpecSync == Init /\ [][NextSync]_vars

\* trading, and callers that hand updateChannelState states of their own
NextDirect ==
  \/ Trading
  \/ \E p \in Procs, c \in Channels : UpdateChannelState(p, c)
  \/ TradingSteps
  \/ Contention
  \/ CacheMissSteps
  \/ \E c \in Channels : LockExpires(c)

SpecDirect == Init /\ [][NextDirect]_vars

\* one caller at a time trades on a channel whose store calls can fail
NextFail ==
  \/ TradingBy(1)
  \/ TradingSteps
  \/ CacheMissSteps
  \/ \E p \in Procs : SetexFails(p) \/ InsertFails(p)

SpecFail == Init /\ [][NextFail]_vars

\* the same, with a createChannel whose redis.setex can fail
NextCreateFail ==
  \/ NextFail
  \/ \E p \in Procs : CreateSetexFails(p)

SpecCreateFail == Init /\ [][NextCreateFail]_vars

\* one caller submits signed quote requests
NextSigned ==
  \/ \E c \in Channels : CreateChannel(1, c) \/ ProcessSignedQuoteRequest(1, c)
  \/ \E p \in Procs :
       \/ CreateCached(p) \/ CreateDone(p)
       \/ LockFirst(p)
       \/ UpdateCached(p) \/ UpdateArchived(p) \/ UpdateReturn(p)
       \/ Released(p) \/ Return(p)
  \/ CacheMissSteps

SpecSigned == Init /\ [][NextSigned]_vars

\* a second coordinator instance on the same store and lock service runs one
\* whole updateChannelState while the lock key is free: SET NX, its state read
\* from the store, updateOne, redis.setex, the message insert, the release.
\* Its channelCache and channelLocks are its own; this instance's are untouched
PeerUpdate(c) ==
  \E nt \in Pairs :
    LET newState == [deserializeChannelState(db[c]) EXCEPT !.nonce = nt[1], !.timestamp = nt[2]]
        m == [type |-> "QUOTE_REQUEST", channelId |-> c, nonce |-> nt[1],
              timestamp |-> nt[2], trader |-> TRADER, quantity |-> 1, maxSlippageBps |-> 50]
        inv == [IdleProc EXCEPT !.op = m.type, !.c = c, !.msg = m, !.new = newState]
    IN
    /\ db[c] # NoDoc
    /\ Returned(c)
    /\ lock[c] = 0
    /\ validateStateTransition(deserializeChannelState(db[c]), newState) = OK
    /\ db' = UpdateOne(c, UpdateDoc(inv))
    /\ redis' = [redis EXCEPT ![c] = serializeChannelState(newState)]
    /\ messages' = storeMessage(c, m.type, m, newState.nonce)
    /\ UNCHANGED <<cache, lock, channelLocks, timers, quotes, checkpoints, proc, ops,
                   due, graceOver, task>>

\* one caller trades through this instance while a second instance commits
\* transitions of its own to the shared store
NextPeers ==
  \/ TradingBy(1)
  \/ TradingSteps
  \/ CacheMissSteps
  \/ \E c \in Channels : PeerUpdate(c)

SpecPeers == Init /\ [][NextPeers]_vars

\* trading, with lock keys that can expire, on a message log that refuses
\* duplicates
NextUnique ==
  \/ Trading
  \/ \E p \in Procs :
       \/ CreateCached(p) \/ CreateDone(p)
       \/ LockFirst(p)
       \/ UpdateCached(p) \/ UpdateArchivedUnique(p) \/ UpdateReturn(p)
       \/ Released(p) \/ CancelDone(p)
       \/ Return(p)
  \/ Contention
  \/ CacheMissSteps
  \/ \E c \in Channels : LockExpires(c)

SpecUnique == Init /\ [][NextUnique]_vars

\* two channels, each with a caller of its own
ChannelPair == {"ch1", "ch2"}

InitPair ==
  /\ db = [c \in ChannelPair |-> NoDoc]
  /\ cache = [c \in ChannelPair |-> NoState]
  /\ redis = [c \in ChannelPair |-> NoState]
  /\ lock = [c \in ChannelPair |-> 0]
  /\ channelLocks = [c \in ChannelPair |-> NoPromise]
  /\ timers = [c \in ChannelPair |-> "none"]
  /\ messages = <<>>
  /\ quotes = [q \in QuoteIds |-> "QUOTED"]
  /\ checkpoints = <<>>
  /\ proc = [p \in Procs |-> IdleProc]
  /\ ops = 0
  /\ due = [c \in ChannelPair |-> FALSE]
  /\ graceOver = [c \in ChannelPair |-> FALSE]
  /\ task = [sync |-> [pc |-> "idle"], check |-> [pc |-> "idle"],
             cleanup |-> [pc |-> "idle"], timer |-> [c \in ChannelPair |-> "idle"]]

\* the continuations of caller p's createChannel and updateChannelState calls
StepsOf(p) ==
  \/ CreateCached(p) \/ CreateDone(p)
  \/ LockFirst(p)
  \/ GetFromRedis(p) \/ GetFromDb(p) \/ GetReturn(p)
  \/ UpdateCached(p) \/ UpdateArchived(p) \/ UpdateReturn(p)
  \/ Released(p)

\* caller 1 works on ch1 and caller 2 on ch2
NextPair ==
  \/ CreateChannel(1, "ch1") \/ UpdateChannelState(1, "ch1")
  \/ CreateChannel(2, "ch2") \/ UpdateChannelState(2, "ch2")
  \/ \E p \in Procs : StepsOf(p)
  \/ \E p \in Procs : Return(p)

\* the calls on ch2 are continued whenever their await has settled; the calls
\* on ch1 may take any time, or stop for good, at each of their awaits
SpecPair == InitPair /\ [][NextPair]_vars /\ WF_vars(StepsOf(2))

\* caller p sends heartbeats, requests checkpoints and closes the channel
LifecycleBy(p) ==
  \E c \in Channels :
    \/ ProcessHeartbeat(p, c)
    \/ CreateCheckpoint(p, c)
    \/ CloseChannel(p, c)

\* the continuations of processHeartbeat, createCheckpoint, closeChannel
LifecycleSteps ==
  \E p \in Procs :
    \/ HeartbeatExpire(p) \/ HeartbeatDone(p)
    \/ CheckpointStored(p) \/ CheckpointDone(p)
    \/ CloseEvicted(p) \/ CloseDone(p)

\* time passes; the channel timer, the timeout cron and the cleanup interval run
Timeouts ==
  \/ \E c \in Channels : TimeoutReached(c) \/ GraceReached(c) \/ RedisExpires(c)
  \/ \E c \in Channels : TimerFires(c) \/ TimerHandled(c)
  \/ CheckFind \/ CheckHandle \/ CheckHandled
  \/ CleanupFind \/ CleanupExpire

\* a channel through its whole life, with one caller at a time: trading,
\* heartbeats, checkpoints, closing, timeout and expiry
NextLife ==
  \/ TradingBy(1)
  \/ TradingSteps
  \/ CacheMissSteps
  \/ LifecycleBy(1)
  \/ LifecycleSteps
  \/ Timeouts

SpecLife == Init /\ [][NextLife]_vars

\* what the event loop runs once its await has settled: the continuations of
\* the public methods
Continuations == TradingSteps \/ CacheMissSteps \/ LifecycleSteps

\* the setTimeout callback of a channel and the handleChannelTimeout it starts
TimerSteps(c) == TimerFires(c) \/ TimerHandled(c)

\* the every-minute checkChannelTimeouts and the handleChannelTimeout calls of its loop
CronSteps == CheckFind \/ CheckHandle \/ CheckHandled

\* the five-minute cleanupExpiredChannels
CleanupSteps == CleanupFind \/ CleanupExpire

\* the life of a channel when the process keeps running: every settled await is
\* continued, a due timer fires, the cron and the cleanup interval keep coming.
\* Nothing obliges a client to call or the clock to reach a deadline.
SpecLifeFair ==
  /\ Init
  /\ [][NextLife]_vars
  /\ WF_vars(Continuations)
  /\ \A c \in Channels : WF_vars(TimerSteps(c))
  /\ WF_vars(CronSteps)
  /\ WF_vars(CleanupSteps)

\* ================================================================= claims
\* an invocation of updateChannelState that is reading the current state or has
\* not finished its writes: it is waiting for the state (cache miss), for
\* updateOne, for redis.setex or for the insert of the message
InFlight(p) ==
  /\ proc[p].ctx = "fn"
  /\ proc[p].pc \in {"gcs_redis", "gcs_db", "gcs_return",
                     "update_db", "update_redis", "update_msg"}

\* an invocation whose new state validateStateTransition has accepted
Accepted(p) ==
  /\ proc[p].ctx = "fn"
  /\ proc[p].pc \in {"update_db", "update_redis", "update_msg"}

\* C1: every state updateChannelState accepts and writes to the channel's
\* document has a nonce strictly greater than the nonce of the state the
\* document held, which is the one accepted immediately before it.
C1_NonceStrictlyIncreasing ==
  [][\A p \in Procs :
       (~Accepted(p) /\ Accepted(p)') =>
          db'[proc'[p].c].nonce > db[proc'[p].c].nonce]_vars

\* C4: for one channel, at most one invocation of updateChannelState is between
\* reading the current state and finishing its writes.
C4_OneTransitionInFlight ==
  \A p, q \in Procs :
    (p # q /\ InFlight(p) /\ InFlight(q)) => proc[p].c # proc[q].c

\* C5: of two Fill messages with the same nonce submitted concurrently to one
\* channel, at most one is accepted: the two are never both past
\* validateStateTransition.
C5_OneFillPerNonce ==
  \A p, q \in Procs :
    (p # q /\ Accepted(p) /\ Accepted(q)
       /\ proc[p].op = "FILL" /\ proc[q].op = "FILL" /\ proc[p].c = proc[q].c)
    => proc[p].msg.nonce # proc[q].msg.nonce

\* C6: a message that waited for the channel lock never fails with the error of
\* the message it waited for: no invocation ends with an error it received from
\* awaiting another invocation's promise.
C6_NoInheritedError ==
  \A p \in Procs : proc[p].pc \in {"release", "done"} => ~proc[p].inherited

\* C2: a message that is already in the channel's message log (it was accepted
\* before) and is submitted again, with the same nonce and timestamp, is
\* rejected: no invocation carrying such a replay has its state transition
\* accepted and written.
C2_ReplayRejected ==
  \A p \in Procs : proc[p].replay => ~Accepted(p)

\* ---------------------------------------------------------------- C3
Tokens == {USDC, WETH}

RECURSIVE BalanceOf(_, _)
BalanceOf(balances, token) ==
  IF balances = <<>> THEN 0
  ELSE (IF Head(balances).token = token THEN Head(balances).amount ELSE 0)
       + BalanceOf(Tail(balances), token)

\* what createChannel recorded as deposited of a token: the trader's deposit
\* of tokenIn and the LP's deposit of tokenOut
Deposited(doc, token) ==
  (IF doc.tokens[1] = token THEN doc.metadata.traderDeposit ELSE 0)
  + (IF doc.tokens[2] = token THEN doc.metadata.lpDeposit ELSE 0)

Conserved(doc, st) ==
  \A token \in Tokens :
    BalanceOf(st.traderBalances, token) + BalanceOf(st.lpBalances, token) = Deposited(doc, token)

\* C3: for every token of a channel, the trader's balance plus the LP's balance
\* equals the deposits createChannel recorded for that token, in the durable
\* record, in the cached and Redis copies, and in every state a process*
\* method has had accepted and is writing.
C3_BalanceConservation ==
  \A c \in Channels :
    db[c] # NoDoc =>
      /\ Conserved(db[c], db[c])
      /\ cache[c] # NoState => Conserved(db[c], cache[c])
      /\ redis[c] # NoState => Conserved(db[c], deserializeChannelState(redis[c]))
      /\ \A p \in Procs : (Accepted(p) /\ proc[p].c = c) => Conserved(db[c], proc[p].new)

\* a fill has been applied to the durable record of a funded channel
C3_FillApplied ==
  \E c \in Channels :
    /\ db[c] # NoDoc
    /\ db[c].lastMessageType = "FILL"
    /\ db[c].nonce > 0
    /\ Deposited(db[c], USDC) > 0

\* ------------------------------------------------------- C7, C8, C9
\* C7: processQuoteRequest, processFill and processCancel change a channel's
\* state only when its status is ACTIVE: whenever one of them has its transition
\* accepted and written, the durable record's status is ACTIVE.
C7_TradingOnlyWhenActive ==
  [][\A p \in Procs :
       (~Accepted(p) /\ Accepted(p)' /\ proc'[p].op \in {"QUOTE_REQUEST", "FILL", "CANCEL"})
         => db[proc'[p].c].status = "ACTIVE"]_vars

\* C8: once the durable record's status is CLOSED or EXPIRED, no step changes
\* the record.
C8_TerminalRecordImmutable ==
  [][\A c \in Channels :
       (db[c] # NoDoc /\ db[c].status \in {"CLOSED", "EXPIRED"}) => db'[c] = db[c]]_vars

\* C9: a record whose status is SETTLING, TIMEOUT or EXPIRED never gets the
\* status ACTIVE or CHECKPOINTING again.
C9_NoReturnToActive ==
  [][\A c \in Channels :
       (db[c] # NoDoc /\ db[c].status \in {"SETTLING", "TIMEOUT", "EXPIRED"})
         => db'[c].status \notin {"ACTIVE", "CHECKPOINTING"}]_vars

\* ---------------------------------------------------------------- C10
\* the conditions under which a transition is to be rejected, as the
\* specification lists them
ToBeRejected(currentState, newState) ==
  \/ ~(newState.nonce > currentState.nonce)
  \/ newState.channelId # currentState.channelId
  \/ <<newState.trader, newState.lp>> # <<currentState.trader, currentState.lp>>
  \/ ~(newState.timestamp > currentState.timestamp)

\* invocation p has, in this step, compared its new state with the state it read
Judged(p) ==
  /\ proc[p].pc \notin {"update_db", "release"}
  /\ proc'[p].pc \in {"update_db", "release"}
  /\ proc'[p].ctx = "fn"
  /\ proc'[p].cur # NoState
  /\ ~proc'[p].inherited

NoUpdateInProgress(c) ==
  \A p \in Procs : proc[p].c = c => proc[p].pc \in {"idle", "done"}

RECURSIVE MaxNonceIn(_, _)
MaxNonceIn(log, c) ==
  IF log = <<>> THEN 0
  ELSE LET rest == MaxNonceIn(Tail(log), c) IN
       IF Head(log).channelId = c /\ Head(log).nonce > rest THEN Head(log).nonce ELSE rest

\* C11: whenever no updateChannelState call is in progress for a channel, the
\* nonce of its durable record equals the highest nonce archived for it in the
\* message log (0 when nothing is archived), also when a store call inside
\* updateChannelState fails.
C11_StateAndMessageTogether ==
  \A c \in Channels :
    (db[c] # NoDoc /\ NoUpdateInProgress(c)) => db[c].nonce = MaxNonceIn(messages, c)

\* ---------------------------------------------------------------- C12
\* C12: a transition is accepted only if the message's signature recovers to
\* the participant the message names as its author: no quote request signed by
\* another address has its transition accepted.
C12_AcceptedOnlyIfSignedByAuthor ==
  \A p \in Procs :
    (Accepted(p) /\ "signature" \in DOMAIN proc[p].msg)
      => proc[p].msg.signature.signedBy = proc[p].msg.trader

\* ---------------------------------------------------------------- C13
\* C13: the nonces of the accepted messages of a channel form a contiguous
\* sequence: every state updateChannelState accepts and writes has the nonce of
\* the record it replaces plus one.
C13_ContiguousNonces ==
  [][\A p \in Procs :
       (~Accepted(p) /\ Accepted(p)') =>
          validateNonceSequence(db[proc'[p].c].nonce, db'[proc'[p].c].nonce)]_vars

\* ---------------------------------------------------------------- C14
\* q * p / 10^18 for a quantity q and a price p; the prices of the model are in
\* units of 10^18
QuoteAmount(q, price) == q * price

\* the balances of newState are those of currentState after the transfer of a
\* fill: the trader buys the channel's tokenOut and pays in its tokenIn
FillTransferred(doc, currentState, newState, fill) ==
  LET quote == doc.tokens[1]
      base  == doc.tokens[2]
      paid  == QuoteAmount(fill.quantity, fill.price) IN
  /\ BalanceOf(newState.traderBalances, quote) = BalanceOf(currentState.traderBalances, quote) - paid
  /\ BalanceOf(newState.traderBalances, base) = BalanceOf(currentState.traderBalances, base) + fill.quantity
  /\ BalanceOf(newState.lpBalances, quote) = BalanceOf(currentState.lpBalances, quote) + paid
  /\ BalanceOf(newState.lpBalances, base) = BalanceOf(currentState.lpBalances, base) - fill.quantity

\* C14: the state processFill has accepted for a Fill of quantity q at price p
\* has the buyer's quote-token balance lower by q*p/10^18 and its base-token
\* balance higher by q than the state it replaces, and the seller's balances
\* changed by the opposite amounts.
C14_FillMovesBalances ==
  [][\A p \in Procs :
       (~Accepted(p) /\ Accepted(p)' /\ proc'[p].op = "FILL") =>
          FillTransferred(db[proc'[p].c], proc'[p].cur, proc'[p].new, proc'[p].msg)]_vars

\* ---------------------------------------------------------------- C15
\* the parameters createChannel has to refuse
Refused(params) ==
  \/ params.trader = params.lp
  \/ params.traderDeposit = 0
  \/ params.lpDeposit = 0
  \/ params.timeout < CHANNEL_TIMEOUT_MS \div 1000

\* C15: a createChannel call whose trader equals its lp, whose trader or lp
\* deposit is zero, or whose timeout is below CHANNEL_TIMEOUT_MS/1000 ends with
\* an error in the step that starts it, and that step inserts no channel
\* document, creates no cache entry, writes no redis entry and arms no timer.
C15_RefusedCreateChangesNothing ==
  [][\A p \in Procs :
       (proc[p].pc = "idle" /\ proc'[p].op = "CREATE" /\ Refused(proc'[p].msg)) =>
          /\ proc'[p].pc = "done"
          /\ proc'[p].err = E_CREATE
          /\ db' = db
          /\ cache' = cache
          /\ redis' = redis
          /\ timers' = timers]_vars

\* a createChannel call refused for its timeout alone has ended, and there is
\* no document, cache entry or timer of its channel
C15_ShortTimeoutRefused ==
  \E p \in Procs :
    /\ proc[p].op = "CREATE"
    /\ proc[p].pc = "done"
    /\ proc[p].err = E_CREATE
    /\ proc[p].msg.trader # proc[p].msg.lp
    /\ proc[p].msg.traderDeposit > 0
    /\ proc[p].msg.lpDeposit > 0
    /\ proc[p].msg.timeout < CHANNEL_TIMEOUT_MS \div 1000
    /\ db[proc[p].c] = NoDoc
    /\ cache[proc[p].c] = NoState
    /\ timers[proc[p].c] = "none"

\* ---------------------------------------------------------------- C16
\* the status of channel c's record
StatusOf(c) == IF db[c] = NoDoc THEN "none" ELSE db[c].status

\* a createCheckpoint call on channel c has stored its checkpoint and returned,
\* and the record's status is CHECKPOINTING
CheckpointCommitted(c) ==
  /\ StatusOf(c) = "CHECKPOINTING"
  /\ \E p \in Procs : /\ proc[p].op = "CHECKPOINT"
                       /\ proc[p].c = c
                       /\ proc[p].pc = "done"
                       /\ proc[p].err = OK

\* C16: a channel put into CHECKPOINTING by an accepted createCheckpoint returns
\* to ACTIVE after the checkpoint has been stored.
C16_CheckpointReturnsToActive ==
  \A c \in Channels : CheckpointCommitted(c) ~> (StatusOf(c) = "ACTIVE")

\* ---------------------------------------------------------------- C17
\* C17: a channel whose status is ACTIVE when the clock has reached its
\* timeoutAt is eventually given the status TIMEOUT, the timer and the periodic
\* checkChannelTimeouts running.
C17_ActiveAtTimeoutTimesOut ==
  \A c \in Channels : (StatusOf(c) = "ACTIVE" /\ due[c]) ~> (StatusOf(c) = "TIMEOUT")

\* ---------------------------------------------------------------- C18
\* caller p has a call under way
Calling(p) == proc[p].pc \notin {"idle", "done"}

\* caller p found its channel's lock key free at its SET NX, waits for no
\* holder, and has no error of the lock
LockUnhindered(p) ==
  /\ proc[p].pc \notin {"lock_wait", "lock_woke", "lock_retry"}
  /\ proc[p].pc = "lock_first" => proc[p].acq
  /\ proc[p].err # E_LOCK
  /\ ~proc[p].inherited

\* C18: with one caller per channel, an updateChannelState call on a channel
\* acquires that channel's lock at its first SET NX whatever the state of the
\* other channel's lock, and the call on ch2 completes however long the holder
\* of ch1's lock takes.
C18_ChannelsLockIndependently ==
  /\ [](\A p \in Procs : LockUnhindered(p))
  /\ (Calling(2) ~> proc[2].pc = "done")

\* the locks of both channels are held at once: caller 1 holds ch1's and is
\* inside updateChannelState, caller 2 has acquired ch2's and written its state
C18_BothLocksHeld ==
  /\ lock["ch1"] = 1
  /\ proc[1].op = "REPLACE" /\ proc[1].ctx = "fn" /\ Calling(1)
  /\ lock["ch2"] = 2
  /\ proc[2].op = "REPLACE" /\ proc[2].pc \in {"update_db", "update_redis", "update_msg"}

\* ---------------------------------------------------------------- C19
\* the step is one of caller p's processHeartbeat call: its start or one of
\* its continuations
HeartbeatStep(p) == proc'[p] # proc[p] /\ proc'[p].op = "HEARTBEAT"

\* the fields of a channel document a heartbeat may write
HeartbeatWritable == {"lastHeartbeatAt", "lastActivityAt"}

\* C19: no step of a processHeartbeat call changes a channel record's nonce,
\* balances, participants, timestamp, status or any other field than
\* lastHeartbeatAt and lastActivityAt, and none archives a message.
C19_HeartbeatFrame ==
  [][\A p \in Procs :
       HeartbeatStep(p) =>
         /\ messages' = messages
         /\ \A c \in Channels :
              /\ DOMAIN db'[c] = DOMAIN db[c]
              /\ \A k \in DOMAIN db[c] \ HeartbeatWritable : db'[c][k] = db[c][k]]_vars

\* a processHeartbeat call has returned and the record carries its refresh
C19_HeartbeatRefreshed ==
  \E p \in Procs :
    /\ proc[p].op = "HEARTBEAT"
    /\ proc[p].pc = "done"
    /\ proc[p].err = OK
    /\ db[proc[p].c] # NoDoc
    /\ db[proc[p].c].lastHeartbeatAt > 0
    /\ db[proc[p].c].lastActivityAt = db[proc[p].c].lastHeartbeatAt

\* ---------------------------------------------------------------- C20
\* C20: whenever a channel record's status is SETTLING, its finalNonce is at
\* least its nonce.
C20_FinalNonceCoversNonce ==
  \A c \in Channels :
    StatusOf(c) = "SETTLING" => db[c].finalNonce >= db[c].nonce

\* ---------------------------------------------------------------- C21
\* the step is taken by an invocation that holds channel c's lock key
StepOfLockHolder(c) ==
  \E p \in Procs : lock[c] = p /\ proc[p].c = c /\ proc'[p] # proc[p]

\* C21: every step that changes a channel's existing durable record is taken
\* by an invocation that holds the channel's lock at that moment.
C21_WritesUnderLock ==
  [][\A c \in Channels :
       (db[c] # NoDoc /\ db'[c] # db[c]) => StepOfLockHolder(c)]_vars

\* ---------------------------------------------------------------- C22
\* C22: with a second instance on the same store, a transition this instance
\* accepts inside the lock has a nonce greater than the nonce of the record in
\* the store at that moment, whichever instance committed it.
C22_ValidatedAgainstStore ==
  [][\A p \in Procs :
       (~Accepted(p) /\ Accepted(p)') =>
          proc'[p].new.nonce > db[proc'[p].c].nonce]_vars

\* ---------------------------------------------------------------- C23
\* the step is one of invocation p's own: its record changes, and not because
\* the promise it was waiting for has settled
OwnStep(p) ==
  /\ proc'[p] # proc[p]
  /\ ~(proc[p].pc = "lock_wait" /\ proc'[p].pc = "lock_woke")

\* C23: no step of an invocation of withChannelLock deletes or replaces a lock
\* key that holds another invocation's token, whether its own key expired and
\* was taken by the other or it never acquired the key.
C23_ReleaseOnlyOwnToken ==
  [][\A p \in Procs : \A c \in Channels :
       (OwnStep(p) /\ lock[c] \notin {0, p}) => lock'[c] = lock[c]]_vars

\* invocation p has run fn to its end and issued its release, its key having
\* expired meanwhile, and the key holds the token of another invocation
C23_ReleasedAfterExpiry ==
  \E p, q \in Procs :
    /\ p # q
    /\ proc[p].pc = "release"
    /\ proc[p].ctx = "fn"
    /\ proc[p].err = OK
    /\ lock[proc[p].c] = q

\* ---------------------------------------------------------------- C24
\* the timestamps of the model count units of QUOTE_EXPIRY_MS, the 30 s window
MsOf(t) == t * QUOTE_EXPIRY_MS

\* what Date.now() reads, in the same units: createChannel stamps the initial
\* state with it, and the calls that follow are made before it has advanced
Now == 0

\* the timestamp lies more than the window away from the coordinator's clock
Stale(timestamp) ==
  \/ MsOf(timestamp) - MsOf(Now) > QUOTE_EXPIRY_MS
  \/ MsOf(Now) - MsOf(timestamp) > QUOTE_EXPIRY_MS

\* C24: no transition is accepted whose timestamp lies more than the 30 s
\* window away from the coordinator's clock, also when it is greater than the
\* channel's current timestamp.
C24_StaleTimestampRejected ==
  [][\A p \in Procs :
       (~Accepted(p) /\ Accepted(p)') => ~Stale(proc'[p].new.timestamp)]_vars

\* ---------------------------------------------------------------- C25
\* an accepted Fill for the quote is in the message log
Filled(quoteId) ==
  \E i \in DOMAIN messages :
    messages[i].messageType = "FILL" /\ messages[i].messageData.quoteId = quoteId

\* the quote is neither cancelled nor filled
Live(quoteId) == quotes[quoteId] = "QUOTED" /\ ~Filled(quoteId)

\* C25: a Fill is accepted only when its quoteId refers to a live quote: one
\* that no accepted Cancel has cancelled and no accepted Fill has filled.
C25_FillOnlyLiveQuote ==
  [][\A p \in Procs :
       (~Accepted(p) /\ Accepted(p)' /\ proc'[p].op = "FILL") =>
          Live(proc'[p].msg.quoteId)]_vars

Evicted(c) ==
  /\ StatusOf(c) \in {"SETTLING", "TIMEOUT"}
  /\ cache[c] = NoState

\* C27: once closeChannel or the timeout handling has evicted a channel from
\* the in-memory cache, the channel stays absent from the cache whatever
\* follows, and its durable record remains.
C27_EvictedStaysEvicted ==
  [][\A c \in Channels :
       Evicted(c) => (cache'[c] = NoState /\ db'[c] # NoDoc)]_vars

\* ---------------------------------------------------------------- C28
\* C28: when no update of a channel is under way, the cached state of the
\* channel has no lower nonce than the channel's durable record.
C28_CacheNotBehindRecord ==
  \A c \in Channels :
    (db[c] # NoDoc /\ cache[c] # NoState /\ NoUpdateInProgress(c))
      => cache[c].nonce >= db[c].nonce

\* ---------------------------------------------------------------- C29
\* C29: no step gives the status TIMEOUT to a record whose status is SETTLING.
C29_SettlingNeverTimesOut ==
  [][\A c \in Channels :
       StatusOf(c) = "SETTLING" => StatusOf(c)' # "TIMEOUT"]_vars

\* ---------------------------------------------------------------- C30
\* C30: when a createChannel call has ended with an error, there is no channel
\* for its channel id: no document, no cache entry, no armed timer.
C30_FailedCreateLeavesNothing ==
  \A p \in Procs :
    (proc[p].op = "CREATE" /\ proc[p].pc = "done" /\ proc[p].err = E_CREATE)
      => /\ db[proc[p].c] = NoDoc
         /\ cache[proc[p].c] = NoState
         /\ timers[proc[p].c] # "armed"

====
